---- MODULE Spec2Model ----
(***************************************************************************)
(* Model of telegram_file_processor.py: the two extraction functions       *)
(* (FileProcessor.process_excel, FileProcessor.process_pdf), the Telegram  *)
(* download helper and the three Flask handlers.                           *)
(*                                                                         *)
(* Python values are represented by strings.  The Python object None and   *)
(* the float NaN that pandas puts in empty cells are the reserved tokens   *)
(* None and NaN, which never occur as cell text.  A Python dict is the     *)
(* sequence of its <<key, value>> pairs in insertion order.  What the      *)
(* third-party libraries return for given bytes is the input of the model: *)
(* a file content is the record of its length and of what each library     *)
(* makes of it.                                                            *)
(***************************************************************************)
EXTENDS Integers, Sequences, FiniteSets, TLC

VARIABLES
    request,       \* the HTTP request being served (route and JSON body)
    calls,         \* outbound and library calls made while serving it, in order
    file_content,  \* the bytes handed to the extractor, NoContent if none
    result,        \* the dict returned by process_excel / process_pdf
    response       \* the HTTP response of the handler

vars == <<request, calls, file_content, result, response>>

-----------------------------------------------------------------------------
(* Bounds of the model *)

MaxRows == 2       \* data rows of a sheet (after the header row)
MaxSheets == 2     \* sheets of a workbook
MaxPages == 2      \* pages of a PDF, for either PDF library

-----------------------------------------------------------------------------
(* Program constants *)

MAX_FILE_SIZE == 50 * 1024 * 1024
EXCERPT_LEN == 5000

-----------------------------------------------------------------------------
(* Python values *)

None == "<None>"
NaN == "<NaN>"

str(v) == IF v = None THEN "None" ELSE v

\* An exception leaving a try block or a function, with its str(e)
Raise(e) == [raises |-> e]
IsRaise(x) == "raises" \in DOMAIN x

\* truth value of a str-or-None object
Truthy(v) == v # None /\ v # ""

Min(a, b) == IF a < b THEN a ELSE b

\* s[:n]
Prefix(s, n) == SubSeq(s, 1, Min(Len(s), n))

\* dict operations
Keys(d) == [i \in 1..Len(d) |-> d[i][1]]
Values(d) == [i \in 1..Len(d) |-> d[i][2]]
HasKey(d, k) == \E i \in 1..Len(d) : d[i][1] = k
DictSet(d, k, v) ==
    IF HasKey(d, k)
    THEN [i \in 1..Len(d) |-> IF d[i][1] = k THEN <<k, v>> ELSE d[i]]
    ELSE Append(d, <<k, v>>)

\* dict.get(key, default) on a result dict
Get(r, key, default) == IF key \in DOMAIN r THEN r[key] ELSE default

Range(s) == {s[i] : i \in 1..Len(s)}

SeqsUpTo(S, n) == UNION {[1..k -> S] : k \in 0..n}

RECURSIVE Flatten(_)
Flatten(ss) == IF ss = <<>> THEN <<>> ELSE Head(ss) \o Flatten(Tail(ss))

-----------------------------------------------------------------------------
(* Spreadsheet inputs.  A workbook is what the two backends make of the    *)
(* bytes: whether pd.read_excel raises, whether load_workbook raises, and  *)
(* the sheets as sequences of rows of cell values (row 1 is the header     *)
(* row).  In read-only mode openpyxl yields rows of differing length when  *)
(* the sheet records no dimensions.                                        *)

ExcelRows ==
    { <<>>, <<"a", "b">>, <<None, "b">>, <<"", "">>, <<None, None>>,
      <<"x">>, <<"x", "y", "z">> }

FirstSheets ==
    {<<>>} \cup {<<h>> \o d : h \in ExcelRows, d \in SeqsUpTo(ExcelRows, MaxRows)}

ExtraSheets == { <<>>, << <<"p", "q">>, <<"1", "2">> >> }

Workbooks ==
    [ pandas_raises : BOOLEAN, openpyxl_raises : BOOLEAN,
      sheets : {<<f>> \o e : f \in FirstSheets,
                             e \in SeqsUpTo(ExtraSheets, MaxSheets - 1)} ]

\* bytes that are no workbook at all: both backends raise
NotWorkbook == [pandas_raises |-> TRUE, openpyxl_raises |-> TRUE, sheets |-> <<>>]

-----------------------------------------------------------------------------
(* pd.read_excel(..., engine='openpyxl') followed by df.to_dict('records') *)
(* and df.columns.tolist(): first sheet only.                              *)

RECURSIVE TrimTrailing(_, _)
TrimTrailing(s, blank) ==
    IF s # <<>> /\ s[Len(s)] = blank THEN TrimTrailing(SubSeq(s, 1, Len(s) - 1), blank) ELSE s

\* the reader turns an empty cell into "" and trims trailing empty cells
pd_convert_row(row) ==
    TrimTrailing([i \in 1..Len(row) |-> IF row[i] = None THEN "" ELSE row[i]], "")

MaxLen(rows) ==
    IF rows = <<>> THEN 0
    ELSE CHOOSE m \in {Len(rows[i]) : i \in 1..Len(rows)} :
             \A i \in 1..Len(rows) : Len(rows[i]) <= m

\* rows converted, trailing empty rows trimmed, every row extended to the widest
pd_sheet_data(sheet) ==
    LET conv == TrimTrailing([i \in 1..Len(sheet) |-> pd_convert_row(sheet[i])], <<>>)
        w == MaxLen(conv)
    IN  [i \in 1..Len(conv) |->
            [j \in 1..w |-> IF j <= Len(conv[i]) THEN conv[i][j] ELSE ""]]

\* the parser skips a line that is a single empty field
pd_remove_empty_lines(lines) == SelectSeq(lines, LAMBDA l : l # <<"">>)

\* an empty header cell is named "Unnamed: <0-based position>"; a repeated
\* name gets the suffix ".<occurrence>"
pd_columns(header) ==
    LET named == [i \in 1..Len(header) |->
                    IF header[i] = "" THEN "Unnamed: " \o ToString(i - 1) ELSE header[i]]
        seen(i) == Cardinality({j \in 1..(i - 1) : named[j] = named[i]})
    IN  [i \in 1..Len(named) |->
            IF seen(i) = 0 THEN named[i] ELSE named[i] \o "." \o ToString(seen(i))]

pd_read_excel(sheet) ==
    LET lines == pd_remove_empty_lines(pd_sheet_data(sheet))
        columns == IF lines = <<>> THEN <<>> ELSE pd_columns(lines[1])
    IN  [ columns |-> columns,
          records |-> [r \in 1..(Len(lines) - 1) |->
                          [j \in 1..Len(columns) |->
                              <<columns[j],
                                IF lines[r + 1][j] = "" THEN NaN ELSE lines[r + 1][j]>>]] ]

-----------------------------------------------------------------------------
(* The openpyxl backend of process_excel *)

excel_sheet_headers(first_row) ==
    IF first_row # <<>>
    THEN [i \in 1..Len(first_row) |->
             IF first_row[i] # None THEN str(first_row[i]) ELSE "Col_" \o ToString(i - 1)]
    ELSE <<>>

RECURSIVE excel_row_dict(_, _, _, _)
excel_row_dict(row, sheet_headers, i, row_dict) ==
    IF i > Len(row) THEN row_dict
    ELSE excel_row_dict(row, sheet_headers, i + 1,
            IF i <= Len(sheet_headers)
            THEN DictSet(row_dict, sheet_headers[i], IF row[i] # None THEN str(row[i]) ELSE "")
            ELSE row_dict)

excel_row_kept(row) == \E i \in 1..Len(row) : row[i] # None

excel_sheet_data(sheet, sheet_headers) ==
    LET kept == SelectSeq(Tail(sheet), excel_row_kept)
    IN  [i \in 1..Len(kept) |-> excel_row_dict(kept[i], sheet_headers, 1, <<>>)]

\* next() on the rows of a sheet without rows raises StopIteration
excel_sheet_raises(sheet) == sheet = <<>>

RECURSIVE excel_all_headers(_)
excel_all_headers(sheets) ==
    IF sheets = <<>> THEN <<>>
    ELSE LET h == excel_sheet_headers(Head(sheets)[1])
         IN  IF h # <<>> THEN h ELSE excel_all_headers(Tail(sheets))

openpyxl_result(wb) ==
    LET all_data == Flatten([s \in 1..Len(wb.sheets) |->
                        excel_sheet_data(wb.sheets[s], excel_sheet_headers(wb.sheets[s][1]))])
    IN  [ success |-> TRUE,
          data |-> all_data,
          headers |-> excel_all_headers(wb.sheets),
          record_count |-> Len(all_data),
          sheets_processed |-> Len(wb.sheets) ]

pandas_result(wb) ==
    LET df == pd_read_excel(wb.sheets[1])
    IN  [ success |-> TRUE,
          data |-> df.records,
          headers |-> df.columns,
          record_count |-> Len(df.records),
          sheets_processed |-> 1 ]

excel_failure(e, filename) ==
    [ success |-> FALSE,
      error |-> "Errore processing Excel: " \o e,
      file_name |-> filename ]

\* the inner try block
pandas_attempt(wb) ==
    IF wb.pandas_raises THEN Raise("Excel file format cannot be determined")
    ELSE pandas_result(wb)

\* the body of the inner except clause
openpyxl_attempt(wb) ==
    IF wb.openpyxl_raises THEN Raise("File is not a zip file")
    ELSE IF \E s \in 1..Len(wb.sheets) : excel_sheet_raises(wb.sheets[s]) THEN Raise("")
    ELSE openpyxl_result(wb)

\* mutant: no outer except clause, the exception of the second backend leaves
\* the function
process_excel_unguarded(content, filename) ==
    LET first == pandas_attempt(content.wb)
    IN  IF ~IsRaise(first)
        THEN [ ret |-> first, calls |-> <<"pd.read_excel">> ]
        ELSE [ ret |-> openpyxl_attempt(content.wb),
               calls |-> <<"pd.read_excel", "load_workbook">> ]

\* What the call returns (ret: a dict, or Raise(e) when an exception leaves
\* the function) and the library calls it made, in order.
process_excel(content, filename) ==
    LET first == pandas_attempt(content.wb)
        second == openpyxl_attempt(content.wb)
    IN  IF ~IsRaise(first)
        THEN [ ret |-> first, calls |-> <<"pd.read_excel">> ]
        ELSE [ ret |-> IF IsRaise(second) THEN excel_failure(second.raises, filename)
                       ELSE second,
               calls |-> <<"pd.read_excel", "load_workbook">> ]

-----------------------------------------------------------------------------
(* PDF inputs.  What pdfplumber makes of the bytes: whether open() raises, *)
(* and per page the text of extract_text(), the tables of extract_tables() *)
(* and which of the two calls raises, if any.  What PyPDF2 makes of the    *)
(* same bytes: whether PdfReader raises, and per page the text of          *)
(* extract_text() or PageRaises.                                           *)

CsvText == "A,B,C\n1,2,3\n4,5,6"

PageTexts == {"", "Intro.", CsvText}

PdfTables ==
    { << <<"a", "b">> >>,
      << <<"", "b">>, <<"1">> >>,
      << <<"a", "b">>, <<"1", "2">> >>,
      << <<None, "b">>, <<"1", None>>, <<None, "">> >>,
      << <<"a">>, <<"", "x">>, <<"1">> >> }

PageTables ==
    {<<>>} \cup {<<t>> : t \in PdfTables}
           \cup { << << <<"a", "b">>, <<"1", "2">> >>, << <<"", "c">>, <<"3">> >> >> }

PlumberPages ==
    [ text : PageTexts, tables : PageTables, raises : {"no"} ]
        \cup { [text |-> "", tables |-> <<>>, raises |-> "extract_text"],
               [text |-> "Intro.", tables |-> <<>>, raises |-> "extract_tables"] }

PageRaises == "<raises>"

PyPdfViews ==
    {[reader_raises |-> TRUE, pages |-> <<>>]}
        \cup [ reader_raises : {FALSE},
               pages : SeqsUpTo({"", "Intro.", PageRaises}, MaxPages) ]

PdfViews ==
    [ open_raises : {TRUE}, pages : {<<>>}, pypdf : PyPdfViews ]
        \cup [ open_raises : {FALSE}, pages : SeqsUpTo(PlumberPages, MaxPages),
               pypdf : PyPdfViews ]

\* bytes that are no PDF at all: both libraries raise
NotPdf ==
    [ open_raises |-> TRUE, pages |-> <<>>,
      pypdf |-> [reader_raises |-> TRUE, pages |-> <<>>] ]

-----------------------------------------------------------------------------
(* The pdfplumber attempt of process_pdf *)

pdf_table_headers(first_row) ==
    [i \in 1..Len(first_row) |->
        IF Truthy(first_row[i]) THEN str(first_row[i]) ELSE "Col_" \o ToString(i - 1)]

RECURSIVE pdf_row_dict(_, _, _, _)
pdf_row_dict(row, headers, i, row_dict) ==
    IF i > Len(row) THEN row_dict
    ELSE pdf_row_dict(row, headers, i + 1,
            IF i <= Len(headers)
            THEN DictSet(row_dict, headers[i], IF Truthy(row[i]) THEN str(row[i]) ELSE "")
            ELSE row_dict)

pdf_row_kept(row) == \E i \in 1..Len(row) : Truthy(row[i])

pdf_table_accepted(table) == table # <<>> /\ Len(table) > 1

\* the records one table appends to extracted_data
pdf_table_data(table) ==
    IF pdf_table_accepted(table)
    THEN LET kept == SelectSeq(Tail(table), pdf_row_kept)
         IN  [i \in 1..Len(kept) |-> pdf_row_dict(kept[i], pdf_table_headers(table[1]), 1, <<>>)]
    ELSE <<>>

pdf_page_marker(page_num) == "\n--- Pagina " \o ToString(page_num + 1) \o " ---\n"

\* One iteration of the page loop; page_num is 0-based as in enumerate().
pdf_page_step(st, page, page_num) ==
    IF page.raises = "extract_text" THEN [st EXCEPT !.raised = TRUE]
    ELSE LET text == IF Truthy(page.text)
                     THEN st.all_text \o pdf_page_marker(page_num) \o page.text
                     ELSE st.all_text
         IN  IF page.raises = "extract_tables"
             THEN [st EXCEPT !.raised = TRUE, !.all_text = text]
             ELSE [ raised |-> FALSE,
                    all_text |-> text,
                    tables_found |-> st.tables_found
                        + Cardinality({t \in 1..Len(page.tables) :
                                          pdf_table_accepted(page.tables[t])}),
                    extracted_data |-> st.extracted_data
                        \o Flatten([t \in 1..Len(page.tables) |->
                                       pdf_table_data(page.tables[t])]) ]

RECURSIVE pdf_page_loop(_, _, _)
pdf_page_loop(st, pages, page_num) ==
    IF st.raised \/ page_num >= Len(pages) THEN st
    ELSE pdf_page_loop(pdf_page_step(st, pages[page_num + 1], page_num), pages, page_num + 1)

\* State of the attempt when it ends: raised, or the loop ran to the end.
pdfplumber_attempt(pdf) ==
    LET st0 == [raised |-> FALSE, all_text |-> "", tables_found |-> 0, extracted_data |-> <<>>]
    IN  IF pdf.open_raises THEN [st0 EXCEPT !.raised = TRUE]
        ELSE pdf_page_loop(st0, pdf.pages, 0)

pdf_text_record(text) == << <<"content", text>>, <<"source", "pdf_text">> >>

pdf_structured_result(st) ==
    IF st.extracted_data # <<>>
    THEN [ success |-> TRUE,
           data |-> st.extracted_data,
           headers |-> Keys(st.extracted_data[1]),
           record_count |-> Len(st.extracted_data),
           tables_found |-> st.tables_found,
           full_text |-> Prefix(st.all_text, EXCERPT_LEN) ]
    ELSE [ success |-> TRUE,
           data |-> <<pdf_text_record(st.all_text)>>,
           headers |-> <<"content", "source">>,
           record_count |-> 1,
           tables_found |-> 0,
           full_text |-> Prefix(st.all_text, EXCERPT_LEN) ]

-----------------------------------------------------------------------------
(* The PyPDF2 fallback of process_pdf *)

pypdf_raises(pypdf) ==
    pypdf.reader_raises \/ \E i \in 1..Len(pypdf.pages) : pypdf.pages[i] = PageRaises

RECURSIVE pypdf_text_content(_)
pypdf_text_content(pages) ==
    IF pages = <<>> THEN "" ELSE Head(pages) \o "\n" \o pypdf_text_content(Tail(pages))

\* mutant: the records gathered before the attempt raised are kept
pdf_fallback_keeps_partial(st, text_content) ==
    [ success |-> TRUE,
      data |-> st.extracted_data \o <<pdf_text_record(text_content)>>,
      headers |-> <<"content", "source">>,
      record_count |-> Len(st.extracted_data) + 1,
      tables_found |-> st.tables_found,
      full_text |-> Prefix(text_content, EXCERPT_LEN) ]

pdf_fallback_result(st, text_content) ==
    [ success |-> TRUE,
      data |-> <<pdf_text_record(text_content)>>,
      headers |-> <<"content", "source">>,
      record_count |-> 1,
      tables_found |-> 0,
      full_text |-> Prefix(text_content, EXCERPT_LEN) ]

\* mutant: a failure of both libraries is reported as an empty success
pdf_marker_envelope(e, filename) ==
    [ success |-> TRUE,
      data |-> <<>>,
      headers |-> <<>>,
      record_count |-> 0,
      tables_found |-> 0,
      full_text |-> "Errore estrazione testo" ]

pdf_failure(e, filename) ==
    [ success |-> FALSE,
      error |-> "Errore processing PDF: " \o e,
      file_name |-> filename ]

\* the body of the inner except clause; st is the state the abandoned
\* attempt left behind (extracted_data is still in scope there)
pypdf_attempt(st, pypdf) ==
    IF pypdf_raises(pypdf) THEN Raise("EOF marker not found")
    ELSE pdf_fallback_result(st, pypdf_text_content(pypdf.pages))

\* What the call returns (ret: a dict, or Raise(e) when an exception leaves
\* the function) and the library calls it made, in order.
process_pdf(content, filename) ==
    LET st == pdfplumber_attempt(content.pdf)
        second == pypdf_attempt(st, content.pdf.pypdf)
    IN  IF ~st.raised
        THEN [ ret |-> pdf_structured_result(st), calls |-> <<"pdfplumber.open">> ]
        ELSE [ ret |-> IF IsRaise(second) THEN pdf_failure(second.raises, filename)
                       ELSE second,
               calls |-> <<"pdfplumber.open", "PyPDF2.PdfReader">> ]

-----------------------------------------------------------------------------
(* File contents and requests of the handlers *)

NoContent == [absent |-> TRUE]
NoResult == [absent |-> TRUE]
NoRequest == [route |-> "none"]

SampleWorkbooks ==
    { [pandas_raises |-> FALSE, openpyxl_raises |-> FALSE,
       sheets |-> << << <<"a", "b">>, <<"1", "2">> >> >>],
      [pandas_raises |-> TRUE, openpyxl_raises |-> FALSE,
       sheets |-> << << <<None, "b">>, <<"1">>, <<"", "">> >> >>],
      NotWorkbook }

SamplePdfs ==
    { [open_raises |-> FALSE,
       pages |-> <<[text |-> "Intro.", raises |-> "no",
                    tables |-> << << <<"a", "b">>, <<"1", "2">> >> >>]>>,
       pypdf |-> [reader_raises |-> FALSE, pages |-> <<"Intro.">>]],
      [open_raises |-> FALSE,
       pages |-> <<[text |-> CsvText, raises |-> "no", tables |-> <<>>]>>,
       pypdf |-> [reader_raises |-> FALSE, pages |-> <<CsvText>>]],
      [open_raises |-> TRUE, pages |-> <<>>,
       pypdf |-> [reader_raises |-> FALSE, pages |-> <<"Intro.">>]],
      NotPdf }

ContentSizes == {1024, MAX_FILE_SIZE + 1}

Contents ==
    [size : ContentSizes, wb : SampleWorkbooks, pdf : {NotPdf}]
        \cup [size : ContentSizes, wb : {NotWorkbook}, pdf : SamplePdfs]

FileNames == {"r.xlsx", "OLD.XLS", "d.pdf", "notes.txt", "unknown", "d.pdf.exe"}

WebhookRequests ==
    { [route |-> "/webhook", json |-> FALSE],
      [route |-> "/webhook", json |-> TRUE, document |-> FALSE] }
        \cup [ route : {"/webhook"}, json : {TRUE}, document : {TRUE},
               file_name : FileNames, file_size : ContentSizes,
               mime_type : {"", "application/pdf"} ]

DirectRequests ==
    {[route |-> "/process-file", json |-> FALSE]}
        \cup [ route : {"/process-file"}, json : {TRUE},
               file_url : {None, "http://host/file"},
               file_type : {None, "xlsx", "xls", "pdf", "txt"} ]

\* file_size values Telegram's getFile answers with
DeclaredSizes == {1024, MAX_FILE_SIZE, MAX_FILE_SIZE + 1}

SinkOutcomes == {"ok", "exception", "non_2xx"}

-----------------------------------------------------------------------------
(* filename.split('.')[-1].lower() if '.' in filename else '' *)

UpperChars == "ABCDEFGHIJKLMNOPQRSTUVWXYZ"
LowerChars == "abcdefghijklmnopqrstuvwxyz"

Char(s, i) == SubSeq(s, i, i)

lower_char(c) ==
    IF \E k \in 1..Len(UpperChars) : Char(UpperChars, k) = c
    THEN Char(LowerChars, CHOOSE k \in 1..Len(UpperChars) : Char(UpperChars, k) = c)
    ELSE c

RECURSIVE lower(_)
lower(s) == IF s = "" THEN "" ELSE lower_char(Char(s, 1)) \o lower(SubSeq(s, 2, Len(s)))

file_extension_of(filename) ==
    LET dots == {i \in 1..Len(filename) : Char(filename, i) = "."}
    IN  IF dots = {} THEN ""
        ELSE LET last == CHOOSE i \in dots : \A j \in dots : j <= i
             IN  lower(SubSeq(filename, last + 1, Len(filename)))

HandledExtensions == {"xlsx", "xls", "pdf"}

-----------------------------------------------------------------------------
(* Handlers.  Each action serves one request from start to response; the   *)
(* answers of Telegram, of the file host and of N8N are chosen by the      *)
(* environment at the call that receives them.  The handlers keep nothing  *)
(* from one request to the next, so a behaviour follows a single request.  *)

Serve(req, cs, content, res, resp) ==
    /\ request = NoRequest
    /\ request' = req
    /\ calls' = cs
    /\ file_content' = content
    /\ result' = res
    /\ response' = resp

json_response(code, body) == [code |-> code, body |-> body]

ignored(reason) == json_response(200, [status |-> "ignored", reason |-> reason])

webhook_error(e) == json_response(500, [status |-> "error", error |-> e])

direct_error(e) == json_response(500, [success |-> FALSE, error |-> e])

processed(filename, res) ==
    json_response(200, [ status |-> "processed",
                         filename |-> filename,
                         record_count |-> Get(res, "record_count", 0),
                         success |-> Get(res, "success", FALSE) ])

\* result['metadata'] = {...}; the clock and the sender's ids are left out
with_metadata(res, req) ==
    [metadata |-> [ original_filename |-> req.file_name,
                    file_size |-> req.file_size,
                    mime_type |-> req.mime_type ]] @@ res

\* the extractor chosen for a handled extension or file_type
extract(kind, content, filename) ==
    IF kind \in {"xlsx", "xls"}
    THEN LET r == process_excel(content, filename)
         IN  [ret |-> r.ret, calls |-> <<"process_excel">> \o r.calls]
    ELSE LET r == process_pdf(content, filename)
         IN  [ret |-> r.ret, calls |-> <<"process_pdf">> \o r.calls]

\* size check of download_telegram_file: TRUE when it raises
download_rejects(file_size) == file_size > MAX_FILE_SIZE

\* mutant: a failed delivery reaches the handler's outer except clause
after_delivery_reraises(outcome, filename, res) ==
    IF outcome = "ok" THEN processed(filename, res) ELSE webhook_error("HTTPError")

\* The try/except around the POST to N8N: the response after the delivery
\* attempt ended with the given outcome.
after_delivery(outcome, filename, res) == processed(filename, res)

health_check ==
    /\ Serve([route |-> "/health"], <<>>, NoContent, NoResult,
             json_response(200, [status |-> "healthy", version |-> "1.0.0"]))

webhook_handler ==
    \E req \in WebhookRequests :
        \/ /\ ~req.json
           /\ Serve(req, <<>>, NoContent, NoResult,
                    webhook_error("400 Bad Request: No JSON data received"))
        \/ /\ req.json /\ ~req.document
           /\ Serve(req, <<>>, NoContent, NoResult, ignored("No document in message"))
        \/ /\ req.json /\ req.document
           /\ file_extension_of(req.file_name) \notin HandledExtensions
           /\ Serve(req, <<>>, NoContent, NoResult,
                    ignored("File type " \o file_extension_of(req.file_name)
                                \o " not handled by this service"))
        \/ /\ req.json /\ req.document
           /\ file_extension_of(req.file_name) \in HandledExtensions
           /\ \/ Serve(req, <<"telegram.getFile">>, NoContent, NoResult,
                       webhook_error("HTTPError"))
              \/ Serve(req, <<"telegram.getFile">>, NoContent, NoResult,
                       webhook_error("Errore Telegram API: Unknown error"))
              \/ \E file_size \in DeclaredSizes :
                    /\ download_rejects(file_size)
                    /\ Serve(req, <<"telegram.getFile">>, NoContent, NoResult,
                             webhook_error("File troppo grande: " \o ToString(file_size)
                                               \o " bytes (max " \o ToString(MAX_FILE_SIZE) \o ")"))
              \/ \E file_size \in DeclaredSizes :
                    /\ ~download_rejects(file_size)
                    /\ Serve(req, <<"telegram.getFile", "telegram.download">>,
                             NoContent, NoResult, webhook_error("HTTPError"))
              \/ \E file_size \in DeclaredSizes, content \in Contents, sink \in SinkOutcomes :
                    /\ ~download_rejects(file_size)
                    /\ LET ext == file_extension_of(req.file_name)
                           r == extract(ext, content, req.file_name)
                           res == with_metadata(r.ret, req)
                       IN  Serve(req,
                                 <<"telegram.getFile", "telegram.download">> \o r.calls
                                     \o <<"n8n.post:" \o sink>>,
                                 content, res, after_delivery(sink, req.file_name, res))

process_file_direct ==
    \E req \in DirectRequests :
        \/ /\ ~req.json
           /\ Serve(req, <<>>, NoContent, NoResult,
                    direct_error("'NoneType' object has no attribute 'get'"))
        \/ /\ req.json
           /\ (req.file_url = None \/ req.file_type = None)
           /\ Serve(req, <<>>, NoContent, NoResult,
                    direct_error("400 Bad Request: file_url and file_type required"))
        \/ /\ req.json /\ req.file_url # None /\ req.file_type # None
           /\ \/ \E content \in Contents :
                    IF req.file_type \in HandledExtensions
                    THEN LET r == extract(req.file_type, content,
                                          IF req.file_type = "pdf" THEN "file.pdf"
                                          ELSE "file." \o req.file_type)
                         IN  Serve(req, <<"requests.get">> \o r.calls, content, r.ret,
                                   json_response(200, r.ret))
                    ELSE Serve(req, <<"requests.get">>, content, NoResult,
                               direct_error("Unsupported file type: " \o req.file_type))
              \/ Serve(req, <<"requests.get">>, NoContent, NoResult, direct_error("HTTPError"))

Init ==
    /\ request = NoRequest
    /\ calls = <<>>
    /\ file_content = NoContent
    /\ result = NoResult
    /\ response = [code |-> 0, body |-> [status |-> "none"]]

Next == health_check \/ process_file_direct \/ webhook_handler

Spec == Init /\ [][Next]_vars

-----------------------------------------------------------------------------
(* The extraction functions on their own: the file content is any workbook *)
(* or PDF of the bounded input sets, and the one action is the call.       *)

ExcelContents == [size : {1024}, wb : Workbooks, pdf : {NotPdf}]
PdfContents == [size : {1024}, wb : {NotWorkbook}, pdf : PdfViews]

InitExtract ==
    /\ \/ /\ request = [route |-> "process_excel", file_name |-> "book.xlsx"]
          /\ file_content \in ExcelContents
          /\ file_content.wb.pandas_raises        \* the openpyxl backend is reached
       \/ /\ request = [route |-> "process_excel", file_name |-> "book.xlsx"]
          /\ file_content \in ExcelContents
          /\ ~file_content.wb.pandas_raises       \* pandas answers
       \/ /\ request = [route |-> "process_pdf", file_name |-> "doc.pdf"]
          /\ file_content \in PdfContents
    /\ calls = <<>>
    /\ result = NoResult
    /\ response = [code |-> 0, body |-> [status |-> "none"]]

ProcessExcel ==
    /\ request.route = "process_excel"
    /\ result = NoResult
    /\ LET r == process_excel(file_content, request.file_name)
       IN  result' = r.ret /\ calls' = r.calls
    /\ UNCHANGED <<request, file_content, response>>

ProcessPdf ==
    /\ request.route = "process_pdf"
    /\ result = NoResult
    /\ LET r == process_pdf(file_content, request.file_name)
       IN  result' = r.ret /\ calls' = r.calls
    /\ UNCHANGED <<request, file_content, response>>

NextExtract == ProcessExcel \/ ProcessPdf

SpecExtract == InitExtract /\ [][NextExtract]_vars

-----------------------------------------------------------------------------
(* Vocabulary of the properties *)

Done == result # NoResult

HasContent == "size" \in DOMAIN file_content

Count(seq, S) == Cardinality({i \in 1..Len(seq) : seq[i] \in S})

ParserCalls == {"process_excel", "process_pdf"}
FetchCalls == {"telegram.getFile", "telegram.download", "requests.get"}
DeliveryCalls == {"n8n.post:" \o o : o \in SinkOutcomes}
FailedDeliveryCalls == {"n8n.post:exception", "n8n.post:non_2xx"}

IsBlank(v) == v \in {None, "", NaN}

\* the structured extractor raises: at open() or on some page
PlumberRaises(pdf) ==
    pdf.open_raises \/ \E i \in 1..Len(pdf.pages) : pdf.pages[i].raises # "no"

\* the fallback raises: at PdfReader() or on some page
FallbackRaises(pdf) ==
    pdf.pypdf.reader_raises \/ \E i \in 1..Len(pdf.pypdf.pages) : pdf.pypdf.pages[i] = PageRaises

\* the records the structured extractor can take from the tables of a page
TableRecordsOf(page) == UNION {Range(pdf_table_data(page.tables[t])) : t \in 1..Len(page.tables)}

ExcelDone == Done /\ request.route = "process_excel"
PdfDone == Done /\ request.route = "process_pdf"

-----------------------------------------------------------------------------
\* C1: on every ingestion path a document whose declared or observed byte
\* length exceeds MAX_FILE_SIZE is rejected before any parser is called: no
\* parser call is made on an over-ceiling document.
C1_NoParserOverCeiling ==
    (HasContent /\ file_content.size > MAX_FILE_SIZE) => Count(calls, ParserCalls) = 0

-----------------------------------------------------------------------------
\* C2: in process_pdf the text-only fallback runs exactly when the structured
\* extractor raised; its result then holds nothing the abandoned attempt
\* gathered, has zero tables, is a success, and has a non-empty text excerpt
\* whenever the fallback recovered any text.
C2_FallbackOnRaise ==
    PdfDone =>
        LET pdf == file_content.pdf
        IN  /\ ("PyPDF2.PdfReader" \in Range(calls)) <=> PlumberRaises(pdf)
            /\ (PlumberRaises(pdf) /\ ~FallbackRaises(pdf)) =>
                  /\ result.success = TRUE
                  /\ result.tables_found = 0
                  /\ result.record_count = 1
                  /\ Len(result.data) = 1
                  /\ Keys(result.data[1]) = <<"content", "source">>
                  /\ \A i \in 1..Len(pdf.pages) :
                        pdf.pages[i].raises = "no" =>
                            Range(result.data) \cap TableRecordsOf(pdf.pages[i]) = {}
                  /\ (\E i \in 1..Len(pdf.pypdf.pages) : pdf.pypdf.pages[i] # "")
                        => result.full_text # ""

\* a table of page 1 gave records, page 2 raised, the fallback recovered text
C2_Witness ==
    /\ PdfDone
    /\ Len(file_content.pdf.pages) = 2
    /\ TableRecordsOf(file_content.pdf.pages[1]) # {}
    /\ file_content.pdf.pages[2].raises = "extract_tables"
    /\ file_content.pdf.pypdf.pages = <<"Intro.">>
    /\ result.success = TRUE
    /\ result.full_text = "Intro.\n"

-----------------------------------------------------------------------------
\* C3 as stated: when both the structured extractor and the fallback raise,
\* process_pdf still yields a success envelope carrying a failure-marker
\* text, with zero tables and zero records.
C3_MarkerEnvelope ==
    (PdfDone /\ PlumberRaises(file_content.pdf) /\ FallbackRaises(file_content.pdf)) =>
        /\ result.success = TRUE
        /\ "full_text" \in DOMAIN result
        /\ Get(result, "tables_found", 1) = 0
        /\ Get(result, "record_count", 1) = 0

\* C3 amended: when both raise, process_pdf raises nothing and returns a
\* failure dict: success False, the fallback's error as reason, the file
\* name, and no data, tables or text.
C3_BothRaiseFailure ==
    (PdfDone /\ PlumberRaises(file_content.pdf) /\ FallbackRaises(file_content.pdf)) =>
        /\ ~IsRaise(result)
        /\ DOMAIN result = {"success", "error", "file_name"}
        /\ result.success = FALSE
        /\ result.error = "Errore processing PDF: EOF marker not found"
        /\ result.file_name = request.file_name

C3_Witness ==
    /\ PdfDone
    /\ Len(file_content.pdf.pages) = 2
    /\ file_content.pdf.pages[2].raises = "extract_text"
    /\ file_content.pdf.pypdf.pages = <<"Intro.", PageRaises>>
    /\ result.success = FALSE

-----------------------------------------------------------------------------
\* C4: no library exception leaves process_excel or process_pdf: every call
\* returns a dict tagged success True or False, a failure carries a reason,
\* a spreadsheet failure is returned only after pandas and then openpyxl
\* have both raised, and when every backend raised the outcome is a failure,
\* never a success.
C4_TaggedOutcome ==
    Done =>
        /\ ~IsRaise(result)
        /\ "success" \in DOMAIN result
        /\ result.success \in BOOLEAN
        /\ (result.success = FALSE) => ("error" \in DOMAIN result /\ result.error # "")
        /\ (result.success = TRUE) => ("data" \in DOMAIN result)
        /\ request.route = "process_excel" =>
              LET wb == file_content.wb
                  bothRaise == /\ wb.pandas_raises
                               /\ \/ wb.openpyxl_raises
                                  \/ \E s \in 1..Len(wb.sheets) : wb.sheets[s] = <<>>
              IN  /\ (result.success = FALSE) <=> bothRaise
                  /\ (result.success = FALSE) => calls = <<"pd.read_excel", "load_workbook">>
        /\ request.route = "process_pdf" =>
              ((result.success = FALSE) <=>
                  (PlumberRaises(file_content.pdf) /\ FallbackRaises(file_content.pdf)))

\* pandas raised, openpyxl opened the workbook and raised on a sheet without rows
C4_Witness ==
    /\ ExcelDone
    /\ file_content.wb.pandas_raises
    /\ ~file_content.wb.openpyxl_raises
    /\ Len(file_content.wb.sheets) = 2
    /\ file_content.wb.sheets[2] = <<>>
    /\ result.success = FALSE
    /\ calls = <<"pd.read_excel", "load_workbook">>

-----------------------------------------------------------------------------
\* C5: in webhook_handler a failed delivery to N8N (exception or non-2xx
\* answer) is only logged: one extraction and one delivery attempt were made,
\* the extraction result is what the extractor returned (plus metadata), and
\* the response is 200 'processed' with that result's record_count and
\* success flag.
C5_DeliveryFailureLoggedOnly ==
    (request.route = "/webhook" /\ Count(calls, FailedDeliveryCalls) > 0) =>
        LET r == extract(file_extension_of(request.file_name), file_content, request.file_name)
        IN  /\ Count(calls, ParserCalls) = 1
            /\ Count(calls, DeliveryCalls) = 1
            /\ calls[Len(calls)] \in FailedDeliveryCalls
            /\ [k \in DOMAIN result \ {"metadata"} |-> result[k]] = r.ret
            /\ response.code = 200
            /\ response.body.status = "processed"
            /\ response.body.filename = request.file_name
            /\ response.body.record_count = Get(r.ret, "record_count", 0)
            /\ response.body.success = r.ret.success

\* a PDF with one table row was extracted and the POST to N8N raised
C5_Witness ==
    /\ request.route = "/webhook"
    /\ Done
    /\ request.file_name = "d.pdf"
    /\ calls[Len(calls)] = "n8n.post:exception"
    /\ result.success = TRUE
    /\ result.tables_found = 1
    /\ response.body.status = "processed"
    /\ response.body.record_count = 1

-----------------------------------------------------------------------------
\* the type of a request cannot be resolved: a /webhook document whose file
\* name has no handled extension and whose mime type names none either, or a
\* /process-file request whose file_type is not handled
Unresolved ==
    \/ /\ request.route = "/webhook" /\ request.json /\ request.document
       /\ file_extension_of(request.file_name) \notin HandledExtensions
       /\ request.mime_type = ""
    \/ /\ request.route = "/process-file" /\ request.json
       /\ request.file_url # None /\ request.file_type # None
       /\ request.file_type \notin HandledExtensions

\* C6: when the type cannot be resolved, on either path no file is fetched,
\* no extractor runs, no envelope is produced and nothing is delivered.
C6_UnsupportedIsFatal ==
    Unresolved =>
        /\ Count(calls, FetchCalls) = 0
        /\ Count(calls, ParserCalls) = 0
        /\ Count(calls, DeliveryCalls) = 0
        /\ ~HasContent
        /\ ~Done

-----------------------------------------------------------------------------
\* C7: when the structured extractor ends without raising and finds no table
\* on a page whose text is the three lines A,B,C / 1,2,3 / 4,5,6, the result
\* holds one table rebuilt from the text: headers A, B, C and 2 records.
C7_TextReconstructed ==
    ( /\ PdfDone
      /\ ~PlumberRaises(file_content.pdf)
      /\ Len(file_content.pdf.pages) = 1
      /\ file_content.pdf.pages[1].text = CsvText
      /\ file_content.pdf.pages[1].tables = <<>> ) =>
        /\ result.success = TRUE
        /\ result.headers = <<"A", "B", "C">>
        /\ result.record_count = 2
        /\ Len(result.data) = 2
        /\ result.tables_found = 1

-----------------------------------------------------------------------------
\* the result comes from a spreadsheet backend or from the tables of the
\* structured PDF extractor
TabularSuccess ==
    /\ Done
    /\ result.success = TRUE
    /\ \/ request.route = "process_excel"
       \/ request.route = "process_pdf" /\ result.tables_found > 0

\* C8: no record of a successful process_excel result (either backend) or of
\* the structured PDF extractor has all of its values empty (stated for
\* results that have headers).
C8_NoBlankRecord ==
    (TabularSuccess /\ result.headers # <<>>) =>
        \A i \in 1..Len(result.data) :
            \E j \in 1..Len(result.data[i]) : ~IsBlank(result.data[i][j][2])

-----------------------------------------------------------------------------
RowBlank(row) == \A j \in 1..Len(row) : IsBlank(row[j])

\* the value the record of a row is to hold at column j of the header row
PaddedCell(row, j) == IF j <= Len(row) /\ ~IsBlank(row[j]) THEN str(row[j]) ELSE ""

\* C9: for a one-sheet workbook with header row H and N data rows none of
\* which is fully blank, process_excel returns N records in row order, each
\* with exactly the keys of H: cells beyond H are dropped and a short row is
\* padded with "" for the header names it lacks.
C9_RecordsKeyedByHeader ==
    ( /\ ExcelDone
      /\ result.success = TRUE
      /\ Len(file_content.wb.sheets) = 1
      /\ Len(file_content.wb.sheets[1]) > 0
      /\ Len(file_content.wb.sheets[1][1]) > 0
      /\ \A r \in 2..Len(file_content.wb.sheets[1]) : ~RowBlank(file_content.wb.sheets[1][r]) ) =>
        LET sheet == file_content.wb.sheets[1]
        IN  /\ result.record_count = Len(sheet) - 1
            /\ Len(result.data) = Len(sheet) - 1
            /\ \A i \in 1..Len(result.data) :
                  /\ Keys(result.data[i]) = result.headers
                  /\ Len(result.headers) = Len(sheet[1])
                  /\ Values(result.data[i])
                        = [j \in 1..Len(sheet[1]) |-> PaddedCell(sheet[i + 1], j)]

-----------------------------------------------------------------------------
\* the header cells the headers of the result are taken from: row 1 of the
\* first sheet, or row 1 of the only table of a one-page PDF
HeaderSource ==
    IF request.route = "process_excel" THEN file_content.wb.sheets[1][1]
    ELSE file_content.pdf.pages[1].tables[1][1]

\* C10: every header of the spreadsheet extractor and of the PDF structured
\* extractor is a non-empty string, and a header cell that is blank at
\* 1-based column k gets the name Col_k.
C10_HeadersNonEmptyColK ==
    ( /\ TabularSuccess
      /\ request.route = "process_excel" => Len(file_content.wb.sheets) = 1
      /\ request.route = "process_pdf" =>
            Len(file_content.pdf.pages) = 1 /\ Len(file_content.pdf.pages[1].tables) = 1 ) =>
        \A k \in 1..Len(result.headers) :
            /\ result.headers[k] # ""
            /\ (k <= Len(HeaderSource) /\ IsBlank(HeaderSource[k]))
                  => result.headers[k] = "Col_" \o ToString(k)

====
